---- MODULE Spec2Model ----
(***************************************************************************)
(* Model of the factorial layer of rust-expm (src/factorial): the lazily   *)
(* initialised table FCACHE of 0! .. 170!, guarded by the std::sync::Once  *)
(* START, and the four functions factorial, ln_factorial, binomial and     *)
(* ln_binomial that read it.                                               *)
(*                                                                         *)
(* Doubles are modelled bit-exactly: a finite non-zero f64 is a sign, a    *)
(* 53-bit significand and a binary exponent, and every arithmetic          *)
(* operation rounds to nearest, ties to even, as IEEE 754 prescribes.      *)
(* TLC's integers are 32 bits wide, so significands are held as sequences  *)
(* of 15-bit limbs, least significant first.                               *)
(***************************************************************************)
EXTENDS Integers, Sequences, FiniteSets, TLC

(***************************************************************************)
(* Natural numbers of any size: sequences of limbs below Base, least       *)
(* significant limb first, no leading zero limb; <<>> is zero.             *)
(***************************************************************************)
LimbBits == 5 * 3
Base == 2^LimbBits

RECURSIVE Norm(_)
Norm(a) ==
    IF a = <<>> THEN <<>>
    ELSE IF a[Len(a)] = 0 THEN Norm(SubSeq(a, 1, Len(a) - 1))
    ELSE a

HeadOr0(a) == IF a = <<>> THEN 0 ELSE Head(a)
TailOrE(a) == IF a = <<>> THEN <<>> ELSE Tail(a)

RECURSIVE AddC(_, _, _)
AddC(a, b, c) ==
    IF a = <<>> /\ b = <<>> THEN (IF c = 0 THEN <<>> ELSE <<c>>)
    ELSE LET x == HeadOr0(a) + HeadOr0(b) + c
         IN  <<x % Base>> \o AddC(TailOrE(a), TailOrE(b), x \div Base)

AddN(a, b) == AddC(a, b, 0)

\* a - b for a >= b
RECURSIVE SubC(_, _, _)
SubC(a, b, c) ==
    IF a = <<>> THEN <<>>
    ELSE LET x == Head(a) - HeadOr0(b) - c
         IN  <<x % Base>> \o SubC(Tail(a), TailOrE(b), IF x < 0 THEN 1 ELSE 0)

SubN(a, b) == Norm(SubC(a, b, 0))

\* a * k + c for a limb k
RECURSIVE MulC(_, _, _)
MulC(a, k, c) ==
    IF a = <<>> THEN (IF c = 0 THEN <<>> ELSE <<c>>)
    ELSE LET x == Head(a) * k + c
         IN  <<x % Base>> \o MulC(Tail(a), k, x \div Base)

MulSmall(a, k) == Norm(MulC(a, k, 0))

ShiftLimbs(a, n) == IF a = <<>> THEN <<>> ELSE [i \in 1..n |-> 0] \o a

RECURSIVE MulN(_, _)
MulN(a, b) ==
    IF a = <<>> \/ b = <<>> THEN <<>>
    ELSE AddN(MulSmall(a, Head(b)), ShiftLimbs(MulN(a, Tail(b)), 1))

\* -1, 0, 1 as a < b, a = b, a > b
RECURSIVE CmpTop(_, _, _)
CmpTop(a, b, i) ==
    IF i = 0 THEN 0
    ELSE IF a[i] < b[i] THEN -1
    ELSE IF a[i] > b[i] THEN 1
    ELSE CmpTop(a, b, i - 1)

CmpN(a, b) ==
    IF Len(a) < Len(b) THEN -1
    ELSE IF Len(a) > Len(b) THEN 1
    ELSE CmpTop(a, b, Len(a))

\* floor(a / k) for a limb k > 0, taken from the top limb down
RECURSIVE DivC(_, _, _, _)
DivC(a, k, i, r) ==
    IF i = 0 THEN <<>>
    ELSE LET x == r * Base + a[i]
         IN  DivC(a, k, i - 1, x % k) \o <<x \div k>>

DivSmall(a, k) == Norm(DivC(a, k, Len(a), 0))

RECURSIVE ModC(_, _, _, _)
ModC(a, k, i, r) == IF i = 0 THEN r ELSE ModC(a, k, i - 1, (r * Base + a[i]) % k)

ModSmall(a, k) == ModC(a, k, Len(a), 0)

RECURSIVE BitsOf(_)
BitsOf(x) == IF x = 0 THEN 0 ELSE 1 + BitsOf(x \div 2)

BitLen(a) == IF a = <<>> THEN 0 ELSE LimbBits * (Len(a) - 1) + BitsOf(a[Len(a)])

Shl(a, n) == ShiftLimbs(MulSmall(a, 2^(n % LimbBits)), n \div LimbBits)

Shr(a, n) ==
    IF n \div LimbBits >= Len(a) THEN <<>>
    ELSE DivSmall(SubSeq(a, n \div LimbBits + 1, Len(a)), 2^(n % LimbBits))

IsOdd(a) == a # <<>> /\ a[1] % 2 = 1

RECURSIVE FromNat(_)
FromNat(x) == IF x = 0 THEN <<>> ELSE <<x % Base>> \o FromNat(x \div Base)

OneN == <<1>>

(***************************************************************************)
(* f64.  A finite non-zero double is [t |-> "num", s, m, e] and stands for *)
(* (-1)^s * m * 2^e with 2^52 <= m < 2^53.                                 *)
(***************************************************************************)
Precision == 53
MaxExp == 1023
MinExp == -1074

Zero == [t |-> "zero"]
Inf == [t |-> "inf", s |-> 0]
NegInf == [t |-> "inf", s |-> 1]
NaN == [t |-> "nan"]

\* the double nearest to (-1)^s * a * 2^e, ties to even; a is a natural.  sh is
\* the number of low bits of a that do not fit: those beyond 53 significant bits,
\* or, for a subnormal result, those below 2^MinExp.
RoundF64(s, a, e) ==
    IF a = <<>> THEN Zero
    ELSE LET L  == BitLen(a)
             sh == IF L - Precision > MinExp - e THEN L - Precision ELSE MinExp - e
         IN  IF sh <= 0
             THEN IF e + L - 1 > MaxExp THEN [t |-> "inf", s |-> s]
                  ELSE [t |-> "num", s |-> s, m |-> Shl(a, -sh), e |-> e + sh]
             ELSE LET q    == Shr(a, sh)
                      r    == SubN(a, Shl(q, sh))
                      c    == CmpN(r, Shl(OneN, sh - 1))
                      up   == c = 1 \/ (c = 0 /\ IsOdd(q))
                      q1   == IF up THEN AddN(q, OneN) ELSE q
                      over == BitLen(q1) > Precision
                      m1   == IF over THEN Shr(q1, 1) ELSE q1
                      e1   == IF over THEN e + sh + 1 ELSE e + sh
                  IN  IF q1 = <<>> THEN Zero
                      ELSE IF e1 + BitLen(m1) - 1 > MaxExp THEN [t |-> "inf", s |-> s]
                      ELSE [t |-> "num", s |-> s, m |-> m1, e |-> e1]

\* `i as f64` for an unsigned integer
FromInt(i) == RoundF64(0, FromNat(i), 0)

One == FromInt(1)

\* x * y in f64
MulF64(x, y) ==
    IF x.t = "nan" \/ y.t = "nan" THEN NaN
    ELSE IF x.t = "inf" \/ y.t = "inf"
    THEN IF x.t = "zero" \/ y.t = "zero" THEN NaN
         ELSE [t |-> "inf", s |-> (x.s + y.s) % 2]
    ELSE IF x.t = "zero" \/ y.t = "zero" THEN Zero
    ELSE RoundF64((x.s + y.s) % 2, MulN(x.m, y.m), x.e + y.e)

\* -x
NegF64(x) == IF x.t \in {"num", "inf"} THEN [x EXCEPT !.s = 1 - @] ELSE x

\* x + y in f64: the exact sum, rounded once
AddF64(x, y) ==
    IF x.t = "nan" \/ y.t = "nan" THEN NaN
    ELSE IF x.t = "inf" THEN (IF y.t = "inf" /\ y.s # x.s THEN NaN ELSE x)
    ELSE IF y.t = "inf" THEN y
    ELSE IF x.t = "zero" THEN y
    ELSE IF y.t = "zero" THEN x
    ELSE LET e  == IF x.e < y.e THEN x.e ELSE y.e
             a  == Shl(x.m, x.e - e)
             b  == Shl(y.m, y.e - e)
             c  == CmpN(a, b)
         IN  IF x.s = y.s THEN RoundF64(x.s, AddN(a, b), e)
             ELSE IF c = 0 THEN Zero
             ELSE IF c = 1 THEN RoundF64(x.s, SubN(a, b), e)
             ELSE RoundF64(y.s, SubN(b, a), e)

\* x - y in f64
SubF64(x, y) == AddF64(x, NegF64(y))

\* f64::floor
FloorF64(x) ==
    IF x.t # "num" \/ x.e >= 0 THEN x
    ELSE LET q == Shr(x.m, -x.e)
             exact == Shl(q, -x.e) = x.m
         IN  IF x.s = 0 THEN RoundF64(0, q, 0)
             ELSE IF exact THEN x
             ELSE RoundF64(1, AddN(q, OneN), 0)

(***************************************************************************)
(* f64::ln and f64::exp, as the correctly rounded functions: the real      *)
(* logarithm and exponential are computed in fixed point with FracBits     *)
(* fractional bits and rounded once to the nearest double.                 *)
(***************************************************************************)
FracBits == LimbBits * 7

\* fixed point: the natural a stands for a / 2^FracBits
MulFx(a, b) == Shr(MulN(a, b), FracBits)
OneFx == Shl(OneN, FracBits)

\* 1 / (b / 2^BitLen(b)) in fixed point, by Newton's iteration x <- x (2 - d x)
\* from a 14-bit estimate
NewtonStep(d, x) == MulFx(x, SubN(Shl(OneFx, 1), MulFx(d, x)))

Recip(b) ==
    LET L  == BitLen(b)
        d  == IF L <= FracBits THEN Shl(b, FracBits - L) ELSE Shr(b, L - FracBits)
        x0 == Shl(FromNat(2^(2 * LimbBits - 1) \div Shr(d, FracBits - LimbBits)[1]),
                  FracBits - LimbBits + 1)
    IN  NewtonStep(d, NewtonStep(d, NewtonStep(d, NewtonStep(d, x0))))

\* a / b in fixed point, for naturals a <= b
DivFx(a, b) == Shr(MulN(a, Recip(b)), BitLen(b))

\* atanh z = z + z^3 / 3 + z^5 / 5 + ..; p is z^(2j+1), z2 is z^2
RECURSIVE AtanhSum(_, _, _, _)
AtanhSum(p, z2, j, acc) ==
    IF p = <<>> THEN acc
    ELSE AtanhSum(MulFx(p, z2), z2, j + 1,
                  IF acc = <<>> THEN DivSmall(p, 2 * j + 1)
                  ELSE AddN(acc, DivSmall(p, 2 * j + 1)))

Atanh(z) == AtanhSum(z, MulFx(z, z), 0, <<>>)

\* ln 2 = 2 atanh(1/3)
Ln2Fx == Shl(Atanh(DivSmall(OneFx, 3)), 1)

\* ln(m * 2^e) with y = m / 2^(L-1) in [1, 2):
\*   y <  3/2:  ln y + (e + L - 1) ln 2,      ln y     =  2 atanh((y - 1) / (y + 1))
\*   y >= 3/2:  ln(y/2) + (e + L) ln 2,       ln(y/2)  = -2 atanh((2 - y) / (2 + y))
LnF64(x) ==
    IF x.t = "nan" THEN NaN
    ELSE IF x.t = "zero" THEN NegInf
    ELSE IF x.s = 1 THEN NaN
    ELSE IF x.t = "inf" THEN Inf
    ELSE LET L   == BitLen(x.m)
             top == Shl(OneN, L - 1)
             low == CmpN(Shl(x.m, 1), MulSmall(top, 3)) < 0
             a   == IF low
                    THEN Shl(Atanh(DivFx(SubN(x.m, top), AddN(x.m, top))), 1)
                    ELSE Shl(Atanh(DivFx(SubN(Shl(top, 1), x.m), AddN(Shl(top, 1), x.m))), 1)
             k   == IF low THEN x.e + L - 1 ELSE x.e + L
             b   == MulSmall(Ln2Fx, IF k < 0 THEN -k ELSE k)
         IN  IF (k >= 0) = low
             THEN RoundF64(IF low THEN 0 ELSE 1, AddN(a, b), -FracBits)
             ELSE IF CmpN(a, b) = 0 THEN Zero
             ELSE IF (CmpN(a, b) > 0) = low THEN RoundF64(0, SubN(IF low THEN a ELSE b, IF low THEN b ELSE a), -FracBits)
             ELSE RoundF64(1, SubN(IF low THEN b ELSE a, IF low THEN a ELSE b), -FracBits)

\* exp r = 1 + r + r^2 / 2! + ..; p is r^j / j!
RECURSIVE ExpSum(_, _, _, _)
ExpSum(p, r, j, acc) ==
    IF p = <<>> THEN acc
    ELSE ExpSum(DivSmall(MulFx(p, r), j + 1), r, j + 1,
                IF acc = <<>> THEN p ELSE AddN(acc, p))

\* the largest q with q * b <= a, for a quotient below Base: its bits from the top
RECURSIVE QuotBits(_, _, _, _)
QuotBits(a, b, i, q) ==
    IF i < 0 THEN q
    ELSE IF CmpN(MulSmall(b, q + 2^i), a) <= 0 THEN QuotBits(a, b, i - 1, q + 2^i)
    ELSE QuotBits(a, b, i - 1, q)

\* exp(x) = 2^k exp(r) with x = k ln 2 + r and 0 <= r < ln 2
ExpF64(x) ==
    IF x.t = "nan" THEN NaN
    ELSE IF x.t = "zero" THEN One
    ELSE IF x.t = "inf" THEN (IF x.s = 0 THEN Inf ELSE Zero)
    ELSE IF x.e + BitLen(x.m) > LimbBits - 3 THEN (IF x.s = 0 THEN Inf ELSE Zero)
    ELSE LET X  == IF x.e + FracBits >= 0 THEN Shl(x.m, x.e + FracBits)
                   ELSE Shr(x.m, -(x.e + FracBits))
             q  == QuotBits(X, Ln2Fx, LimbBits - 1, 0)
             r  == SubN(X, MulSmall(Ln2Fx, q))
         IN  IF x.s = 0 THEN RoundF64(0, ExpSum(OneFx, r, 0, <<>>), q - FracBits)
             ELSE IF r = <<>> THEN RoundF64(0, OneFx, -q - FracBits)
             ELSE RoundF64(0, ExpSum(OneFx, SubN(Ln2Fx, r), 0, <<>>), -q - 1 - FracBits)

(***************************************************************************)
(* The calls the source makes on doubles build the expression; F64Val      *)
(* gives the double it evaluates to.                                       *)
(***************************************************************************)
Ln(a) == [t |-> "ln", a |-> a]
Exp(a) == [t |-> "exp", a |-> a]
Floor(a) == [t |-> "floor", a |-> a]
Sub(a, b) == [t |-> "sub", a |-> a, b |-> b]
Add(a, b) == [t |-> "add", a |-> a, b |-> b]
Half == [t |-> "num", s |-> 0, m |-> One.m, e |-> One.e - 1]
ln_gamma(x) == [t |-> "ln_gamma", a |-> x]

RECURSIVE F64Val(_)
F64Val(v) ==
    IF v.t = "ln" THEN LnF64(F64Val(v.a))
    ELSE IF v.t = "exp" THEN ExpF64(F64Val(v.a))
    ELSE IF v.t = "floor" THEN FloorF64(F64Val(v.a))
    ELSE IF v.t = "sub" THEN SubF64(F64Val(v.a), F64Val(v.b))
    ELSE IF v.t = "add" THEN AddF64(F64Val(v.a), F64Val(v.b))
    ELSE v

NoVal == [t |-> "none"]

(***************************************************************************)
(* The program                                                             *)
(***************************************************************************)
MAX_ARG == 170
CACHE_SIZE == 171

\* bounds of the model
NThreads == 2
MaxCalls == 2

Threads == 1..NThreads

VARIABLES
    FCACHE,     \* the static table, index 0 .. CACHE_SIZE - 1
    START,      \* the state of the Once
    thread,     \* per thread: where it is in its call, its arguments and locals
    calls,      \* history: calls made so far
    others,     \* history: calls made so far that are not Direct
    runs,       \* history: how many times the closure given to call_once was entered
    written     \* history: the indices of FCACHE written so far

vars == <<FCACHE, START, thread, calls, others, runs, written>>

\* reads counts the entries of FCACHE the call has read
Idle ==
    [pc |-> "idle", op |-> "none", n |-> 0, k |-> 0, lnf |-> <<>>,
     ret |-> NoVal, reads |-> 0, i |-> 0, acc |-> NoVal]

\* static mut FCACHE = &mut [1.0; CACHE_SIZE]; static START = Once::new()
Init ==
    /\ FCACHE = [j \in 0..(CACHE_SIZE - 1) |-> One]
    /\ START = "INCOMPLETE"
    /\ thread = [t \in Threads |-> Idle]
    /\ calls = 0
    /\ others = 0
    /\ runs = 0
    /\ written = {}

Done(f, v) == [f EXCEPT !.pc = "done", !.ret = v]
Panic(f) == [f EXCEPT !.pc = "panic"]

\* the argument of the ln_factorial call a frame is evaluating: the operands of
\* ln_factorial(n) - ln_factorial(k) - ln_factorial(n - k), left to right
CurArg(f) ==
    IF f.op \in {"factorial", "ln_factorial"} \/ Len(f.lnf) = 0 THEN f.n
    ELSE IF Len(f.lnf) = 1 THEN f.k
    ELSE f.n - f.k

\* how many ln_factorial values the call needs
Need(op) == IF op = "ln_factorial" THEN 1 ELSE 3

ln_binomial_of(l) == Sub(Sub(l[1], l[2]), l[3])

binomial_of(l) == Floor(Add(Half, Exp(ln_binomial_of(l))))

Combine(op, l) ==
    IF op = "ln_factorial" THEN l[1]
    ELSE IF op = "ln_binomial" THEN ln_binomial_of(l)
    ELSE binomial_of(l)

\* Variants of the branch conditions, each off by one, against which the
\* properties are tried.
factorial_overflows_from_170(x) == x >= MAX_ARG
ln_factorial_is_zero_at_0_only(x) == x < 1
ln_factorial_by_gamma_from_170(x) == x >= MAX_ARG
k_exceeds_n_by_two(n, k) == k > n + 1
Sentinel_always_zero(op) == Zero

\* the conditions the four functions branch on
factorial_overflows(x) == x > MAX_ARG
ln_factorial_is_zero(x) == x <= 1
ln_factorial_by_gamma(x) == x > MAX_ARG
k_exceeds_n(n, k) == k > n

\* what binomial and ln_binomial answer when k > n
Sentinel(op) == IF op = "binomial" THEN Zero ELSE NegInf

\* A frame run up to its next use of the cache or to its return: the branches of
\* factorial, ln_factorial, binomial and ln_binomial that touch no shared state.
\* An unsigned subtraction below zero panics.
RECURSIVE Run(_)
Run(f) ==
    IF f.op = "factorial"
    THEN IF factorial_overflows(f.n) THEN Done(f, Inf) ELSE [f EXCEPT !.pc = "call_once"]
    ELSE IF f.op \in {"binomial", "ln_binomial"} /\ k_exceeds_n(f.n, f.k)
    THEN Done(f, Sentinel(f.op))
    ELSE IF Len(f.lnf) = Need(f.op) THEN Done(f, Combine(f.op, f.lnf))
    ELSE IF CurArg(f) < 0 THEN Panic(f)
    ELSE IF ln_factorial_is_zero(CurArg(f)) THEN Run([f EXCEPT !.lnf = Append(@, Zero)])
    ELSE IF ln_factorial_by_gamma(CurArg(f))
    THEN Run([f EXCEPT !.lnf = Append(@, ln_gamma(AddF64(FromInt(CurArg(f)), One)))])
    ELSE [f EXCEPT !.pc = "call_once"]

\* the calls answered by a sentinel or by ln_gamma before any operand is looked up
Direct(op, n, k) ==
    \/ op = "factorial" /\ n > MAX_ARG
    \/ op = "ln_factorial" /\ (n <= 1 \/ n > MAX_ARG)
    \/ op \in {"binomial", "ln_binomial"} /\ k > n

\* a thread calls op(n, k); k is unused by factorial and ln_factorial
Call(t, op, n, k) ==
    /\ thread[t].pc = "idle"
    /\ calls < MaxCalls
    /\ thread' = [thread EXCEPT ![t] = Run([Idle EXCEPT !.op = op, !.n = n, !.k = k])]
    /\ calls' = calls + 1
    /\ others' = IF Direct(op, n, k) THEN others ELSE others + 1
    /\ UNCHANGED <<FCACHE, START, runs, written>>

\* A variant without the Once: whoever finds the table incomplete fills it.
CallOnce_unguarded(t) ==
    /\ thread[t].pc = "call_once"
    /\ IF START # "COMPLETE"
       THEN /\ START' = "RUNNING"
            /\ runs' = runs + 1
            /\ thread' = [thread EXCEPT ![t].pc = "fold", ![t].i = 1, ![t].acc = FCACHE[0]]
       ELSE /\ thread' = [thread EXCEPT ![t].pc = "read"]
            /\ UNCHANGED <<START, runs>>
    /\ UNCHANGED <<FCACHE, calls, others, written>>

\* START.call_once(..) entered: the first caller takes the initialisation, a
\* caller that finds it running blocks, a caller that finds it complete goes on
CallOnce(t) ==
    /\ thread[t].pc = "call_once"
    /\ IF START = "INCOMPLETE"
       THEN /\ START' = "RUNNING"
            /\ runs' = runs + 1
            /\ thread' = [thread EXCEPT ![t].pc = "fold", ![t].i = 1, ![t].acc = FCACHE[0]]
       ELSE /\ thread' = [thread EXCEPT ![t].pc =
                   IF START = "COMPLETE" THEN "read"
                   ELSE IF START = "POISONED" THEN "panic"
                   ELSE "wait"]
            /\ UNCHANGED <<START, runs>>
    /\ UNCHANGED <<FCACHE, calls, others, written>>

\* acc * i as f64
fold_fac(acc, i) == MulF64(acc, FromInt(i))

\* one iteration of (1..CACHE_SIZE).fold(FCACHE[0], |acc, i| ..); an index
\* outside the array panics inside the closure, which poisons the Once
FoldStep(t) ==
    /\ thread[t].pc = "fold"
    /\ thread[t].i < CACHE_SIZE
    /\ LET i   == thread[t].i
           fac == fold_fac(thread[t].acc, i)
       IN  IF i \in DOMAIN FCACHE
           THEN /\ FCACHE' = [FCACHE EXCEPT ![i] = fac]
                /\ written' = written \cup {i}
                /\ thread' = [thread EXCEPT ![t].i = i + 1, ![t].acc = fac]
                /\ UNCHANGED START
           ELSE /\ START' = "POISONED"
                /\ thread' = [thread EXCEPT ![t] = Panic(@)]
                /\ UNCHANGED <<FCACHE, written>>
    /\ UNCHANGED <<calls, others, runs>>

\* Variants of the closure's return: the Once is left running, or is reset.
FoldDone_left_running(t) ==
    /\ thread[t].pc = "fold"
    /\ thread[t].i >= CACHE_SIZE
    /\ thread' = [thread EXCEPT ![t].pc = "read", ![t].i = 0, ![t].acc = NoVal]
    /\ UNCHANGED <<FCACHE, START, calls, others, runs, written>>

FoldDone_reset(t) ==
    /\ thread[t].pc = "fold"
    /\ thread[t].i >= CACHE_SIZE
    /\ START' = "INCOMPLETE"
    /\ thread' = [thread EXCEPT ![t].pc = "read", ![t].i = 0, ![t].acc = NoVal]
    /\ UNCHANGED <<FCACHE, calls, others, runs, written>>

\* the closure returns: the Once is complete
FoldDone(t) ==
    /\ thread[t].pc = "fold"
    /\ thread[t].i >= CACHE_SIZE
    /\ START' = "COMPLETE"
    /\ thread' = [thread EXCEPT ![t].pc = "read", ![t].i = 0, ![t].acc = NoVal]
    /\ UNCHANGED <<FCACHE, calls, others, runs, written>>

\* A variant in which a blocked caller goes on before the Once is complete.
Wake_early(t) ==
    /\ thread[t].pc = "wait"
    /\ thread' = [thread EXCEPT ![t].pc = "read"]
    /\ UNCHANGED <<FCACHE, START, calls, others, runs, written>>

\* a caller blocked in call_once goes on once the Once is complete (and panics
\* if the closure panicked)
Wake(t) ==
    /\ thread[t].pc = "wait"
    /\ START \in {"COMPLETE", "POISONED"}
    /\ thread' = [thread EXCEPT ![t].pc = IF START = "COMPLETE" THEN "read" ELSE "panic"]
    /\ UNCHANGED <<FCACHE, START, calls, others, runs, written>>

\* get_fcache()[x as usize], and the call run on from there
Read(t) ==
    /\ thread[t].pc = "read"
    /\ LET f == [thread[t] EXCEPT !.reads = @ + 1]
           x == CurArg(f)
       IN  thread' = [thread EXCEPT ![t] =
               IF x \notin DOMAIN FCACHE THEN Panic(f)
               ELSE IF f.op = "factorial" THEN Done(f, FCACHE[x])
               ELSE Run([f EXCEPT !.lnf = Append(@, Ln(FCACHE[x]))])]
    /\ UNCHANGED <<FCACHE, START, calls, others, runs, written>>

\* the call returns to its caller
Return(t) ==
    /\ thread[t].pc = "done"
    /\ thread' = [thread EXCEPT ![t] = Idle]
    /\ UNCHANGED <<FCACHE, START, calls, others, runs, written>>

Step(t) == CallOnce(t) \/ FoldStep(t) \/ FoldDone(t) \/ Wake(t) \/ Read(t) \/ Return(t)

\* Concurrent callers: each draws its calls from Calls
Calls ==
    {<<"factorial", 5, 0>>, <<"factorial", 171, 0>>,
     <<"ln_factorial", 5, 0>>, <<"binomial", 5, 2>>}

Next ==
    \E t \in Threads :
        \/ \E c \in Calls : Call(t, c[1], c[2], c[3])
        \/ Step(t)

Spec == Init /\ [][Next]_vars

\* One caller, calls in sequence.  The table is initialised by one of Calls; the
\* calls that leave it alone, and every call once it is complete, range over the
\* arguments on both sides of every branch, up to the largest integer TLC holds.
SeqArgs == 0..(MAX_ARG + 2) \cup {131072, 2147483647}

SeqPairs ==
    {<<0, 0>>, <<1, 0>>, <<1, 1>>, <<5, 2>>, <<5, 3>>, <<7, 3>>, <<7, 4>>,
     <<48, 23>>, <<48, 25>>, <<170, 1>>, <<170, 169>>, <<171, 1>>, <<171, 170>>,
     <<0, 1>>, <<5, 7>>, <<2, 5>>, <<170, 171>>, <<171, 172>>,
     <<0, 2147483647>>, <<2147483647, 0>>}

SeqCall(op, n, k) ==
    /\ START = "COMPLETE" \/ Direct(op, n, k) \/ <<op, n, k>> \in Calls
    /\ Call(1, op, n, k)

SeqNext ==
    \/ \E op \in {"factorial", "ln_factorial"}, n \in SeqArgs : SeqCall(op, n, 0)
    \/ \E op \in {"binomial", "ln_binomial"}, p \in SeqPairs : SeqCall(op, p[1], p[2])
    \/ CallOnce(1) \/ FoldStep(1) \/ FoldDone(1) \/ Read(1) \/ Return(1)

SeqSpec == Init /\ [][SeqNext]_vars

\* Concurrent callers under a fair scheduler: a thread that can take a step of
\* its call eventually takes one
LiveCalls == {<<"factorial", 5, 0>>, <<"ln_factorial", 171, 0>>}

LiveNext ==
    \E t \in Threads :
        \/ \E c \in LiveCalls : Call(t, c[1], c[2], c[3])
        \/ Step(t)

\* FoldStep(t) can be taken
FoldReady(t) == thread[t].pc = "fold" /\ thread[t].i < CACHE_SIZE

\* WF_vars(FoldStep(t)) with ENABLED written out: a fold that can go on does
FoldFair(t) == []<>(~FoldReady(t)) \/ []<><<FoldStep(t)>>_vars

\* what a thread that is not folding does next
Scheduled(t) == CallOnce(t) \/ FoldDone(t) \/ Wake(t) \/ Read(t) \/ Return(t)

\* every thread that can take a step is eventually scheduled to take it
LiveSpec ==
    /\ Init
    /\ [][LiveNext]_vars
    /\ \A t \in Threads : WF_vars(Scheduled(t)) /\ FoldFair(t)

(***************************************************************************)
(* Reference values                                                        *)
(***************************************************************************)
\* lo!, .., hi! as doubles, each the rounded product of the one before, given
\* prev = (lo - 1)!
RECURSIVE FactRange(_, _, _)
FactRange(lo, hi, prev) ==
    IF lo = hi THEN <<MulF64(prev, FromInt(lo))>>
    ELSE LET mid  == (lo + hi) \div 2
             left == FactRange(lo, mid, prev)
         IN  left \o FactRange(mid + 1, hi, left[Len(left)])

\* FactTable[i + 1] is i!
FactTable == <<One>> \o FactRange(1, MAX_ARG, One)

TableFinal == \A i \in 0..MAX_ARG : FCACHE[i] = FactTable[i + 1]

\* the operand of the j-th ln_factorial call of a frame
ArgAt(f, j) == IF j = 1 THEN f.n ELSE IF j = 2 THEN f.k ELSE f.n - f.k

IsDone(f, op) == f.pc = "done" /\ f.op = op

\* n choose k as a natural, by (n - k + 1) / 1 * (n - k + 2) / 2 * ..
RECURSIVE ChooseUpTo(_, _)
ChooseUpTo(n, j) ==
    IF j = 0 THEN OneN
    ELSE LET c == ChooseUpTo(n, j - 1)
         IN  IF c = <<>> THEN <<>> ELSE DivSmall(MulSmall(c, n - j + 1), j)

Choose(n, k) == ChooseUpTo(n, IF k < n - k THEN k ELSE n - k)

\* what ln_factorial(x) answers once the table is complete
ln_factorial_value(x) ==
    IF ln_factorial_is_zero(x) THEN Zero
    ELSE IF ln_factorial_by_gamma(x) THEN ln_gamma(AddF64(FromInt(x), One))
    ELSE Ln(FCACHE[x])

\* what binomial(n, k) answers for k <= n once the table is complete
binomial_value(n, k) ==
    binomial_of(<<ln_factorial_value(n), ln_factorial_value(k), ln_factorial_value(n - k)>>)

InGetFcache(f) == f.pc \in {"call_once", "fold", "wait"}

(***************************************************************************)
(* Properties                                                              *)
(***************************************************************************)

\* C1: however the callers interleave, the closure given to START.call_once is
\* entered at most once, and at most one thread is ever writing the table.
C1_OneInitialiser ==
    /\ runs <= 1
    /\ Cardinality({t \in Threads : thread[t].pc = "fold"}) <= 1

\* two first-time callers met in get_fcache: one initialises, the other is blocked
C1_Witness ==
    /\ runs = 1
    /\ \E t, u \in Threads : thread[t].pc = "fold" /\ thread[u].pc = "wait"

\* C2: whenever get_fcache has returned to a caller, every entry i of the table
\* holds i!, and what factorial and ln_factorial read from it are those values
\* (factorial(5) is 120.0).
C2_NoPartialTable ==
    \A t \in Threads :
        LET f == thread[t]
        IN  /\ f.pc = "read" => TableFinal
            /\ IsDone(f, "factorial") /\ f.n <= MAX_ARG => f.ret = FactTable[f.n + 1]
            /\ IsDone(f, "factorial") /\ f.n = 5 => f.ret = FromInt(120)
            /\ \A j \in 1..Len(f.lnf) :
                   f.lnf[j].t = "ln" => f.lnf[j].a = FactTable[ArgAt(f, j) + 1]

\* two concurrent callers have both come back from get_fcache
C2_Witness ==
    /\ calls = 2
    /\ \E t, u \in Threads :
           t # u /\ thread[t].pc = "read" /\ thread[u].pc = "read"

\* C3: under fair scheduling, a started initialisation completes with all 170
\* entries written, and every caller inside get_fcache comes back from it.
C3_InitCompletes ==
    /\ (START = "RUNNING") ~> (START = "COMPLETE" /\ written = 1..(CACHE_SIZE - 1))
    /\ \A t \in Threads : InGetFcache(thread[t]) ~> (thread[t].pc = "read")

\* the initialisation is complete and a caller that was blocked is about to go on
C3_Witness ==
    /\ START = "COMPLETE"
    /\ written = 1..(CACHE_SIZE - 1)
    /\ \E t \in Threads : thread[t].pc = "wait"

\* C4: the Once only moves INCOMPLETE -> RUNNING -> COMPLETE; the first step is
\* taken by a caller entering call_once, the second when the whole product is
\* stored; once COMPLETE it stays so and the table is never written again.
C4_Lifecycle ==
    [][/\ START = "INCOMPLETE" => START' \in {"INCOMPLETE", "RUNNING"}
       /\ START = "RUNNING" => START' \in {"RUNNING", "COMPLETE"}
       /\ START = "COMPLETE" => START' = "COMPLETE" /\ FCACHE' = FCACHE /\ written' = written
       /\ START = "INCOMPLETE" /\ START' = "RUNNING" =>
              \E t \in Threads : thread[t].pc = "call_once" /\ thread'[t].pc = "fold"
       /\ START = "RUNNING" /\ START' = "COMPLETE" =>
              written = 1..(CACHE_SIZE - 1) /\ TableFinal
       /\ START \in {"INCOMPLETE", "RUNNING", "COMPLETE"}]_vars

\* a later call was answered from the complete table
C4_Witness ==
    /\ START = "COMPLETE"
    /\ calls >= 2
    /\ \E t \in Threads : thread[t].pc = "done" /\ thread[t].reads > 0

\* C5: factorial(n) is +inf for n > 170, 1.0 for n = 0, and for 1 <= n <= 170 the
\* stored cache[n], which is cache[n - 1] * n.
C5_Factorial ==
    \A t \in Threads :
        LET f == thread[t]
        IN  IsDone(f, "factorial") =>
                /\ f.n > MAX_ARG => f.ret = Inf /\ f.reads = 0
                /\ f.n = 0 => f.ret = One
                /\ f.n >= 1 /\ f.n <= MAX_ARG =>
                       /\ f.ret = FCACHE[f.n]
                       /\ f.ret = MulF64(FCACHE[f.n - 1], FromInt(f.n))

\* factorial(170), the last finite one, has returned
C5_Witness ==
    \E t \in Threads :
        IsDone(thread[t], "factorial") /\ thread[t].n = MAX_ARG /\ thread[t].ret.t = "num"

\* C6: ln_factorial(n) is 0.0 for n <= 1 without reading the table, ln(cache[n])
\* for 1 < n <= 170, and ln_gamma(n + 1) for n > 170 without reading the table;
\* so it is ln(factorial(n)) for every n <= 170.
C6_LnFactorial ==
    \A t \in Threads :
        LET f == thread[t]
        IN  IsDone(f, "ln_factorial") =>
                /\ f.n <= 1 =>
                       f.ret = Zero /\ f.reads = 0 /\ F64Val(Ln(FCACHE[f.n])) = Zero
                /\ f.n > 1 /\ f.n <= MAX_ARG =>
                       f.ret = Ln(FCACHE[f.n]) /\ f.reads = 1 /\ FCACHE[f.n] = FactTable[f.n + 1]
                /\ f.n > MAX_ARG =>
                       f.ret = ln_gamma(AddF64(FromInt(f.n), One)) /\ f.reads = 0

\* ln_factorial(170) has returned, answered from the table
C6_Witness ==
    \E t \in Threads :
        IsDone(thread[t], "ln_factorial") /\ thread[t].n = MAX_ARG /\ thread[t].reads = 1

\* C7: for k > n, binomial(n, k) is 0.0 and ln_binomial(n, k) is -inf, and no call
\* fails.
C7_OutOfRange ==
    \A t \in Threads :
        LET f == thread[t]
        IN  /\ f.pc # "panic"
            /\ f.pc # "idle" /\ f.op \in {"binomial", "ln_binomial"} /\ f.k > f.n =>
                   /\ f.pc = "done"
                   /\ f.reads = 0
                   /\ f.op = "binomial" => f.ret = Zero
                   /\ f.op = "ln_binomial" => f.ret = NegInf

\* ln_binomial(n, k) with k > n has returned
C7_Witness ==
    \E t \in Threads : IsDone(thread[t], "ln_binomial") /\ thread[t].k > thread[t].n

\* C8: binomial(n, k) is binomial(n, n - k) and is the integer n choose k, for
\* k <= n (here n <= 170, where every operand is looked up or zero).
C8_Symmetry ==
    \A t \in Threads :
        LET f == thread[t]
        IN  IsDone(f, "binomial") /\ f.k <= f.n /\ f.n <= MAX_ARG =>
                /\ F64Val(f.ret) = F64Val(binomial_value(f.n, f.n - f.k))
                /\ F64Val(f.ret) = RoundF64(0, Choose(f.n, f.k), 0)

\* C9: no call panics: the table is read only at an index in 0..170, n - k is
\* taken only for k <= n, and the initialisation writes only indices 1..170.
C9_NoPanic ==
    /\ START # "POISONED"
    /\ written \subseteq 1..MAX_ARG
    /\ \A t \in Threads :
           LET f == thread[t]
           IN  /\ f.pc # "panic"
               /\ f.pc = "read" => CurArg(f) \in 0..MAX_ARG
               /\ f.pc = "fold" => f.i \in 1..CACHE_SIZE
               /\ Len(f.lnf) >= 2 => f.k <= f.n

\* factorial(170) is about to read the last entry
C9_Witness ==
    \E t \in Threads :
        thread[t].pc = "read" /\ thread[t].op = "factorial" /\ CurArg(thread[t]) = MAX_ARG

\* C10: a call answered without the table (factorial(n) for n > 170,
\* ln_factorial(n) for n <= 1 or n > 170, binomial and ln_binomial for k > n)
\* never enters get_fcache; while only such calls were made the table is
\* untouched and the Once INCOMPLETE; and a caller that is inside get_fcache is
\* there for an entry it goes on to read.
C10_DirectCallsLeaveCache ==
    /\ others = 0 =>
           /\ START = "INCOMPLETE"
           /\ runs = 0
           /\ written = {}
           /\ \A i \in DOMAIN FCACHE : FCACHE[i] = One
    /\ \A t \in Threads :
           LET f == thread[t]
           IN  /\ f.pc # "idle" /\ Direct(f.op, f.n, f.k) => f.pc = "done" /\ f.reads = 0
               /\ InGetFcache(f) \/ f.pc = "read" =>
                      /\ ~Direct(f.op, f.n, f.k)
                      /\ CurArg(f) \in 0..MAX_ARG
                      /\ f.op # "factorial" => CurArg(f) > 1

\* two calls answered without the table were made, and nothing else
C10_Witness ==
    /\ calls >= 2
    /\ others = 0
    /\ \E t \in Threads : thread[t].pc = "done"
====
